---- MODULE Spec2Model ----
(***************************************************************************)
(* The library catalog of catalog/models.py and its administrative         *)
(* interface of catalog/admin.py, as a state machine over the relational   *)
(* tables.  Every administrative request (add form, change form, delete    *)
(* view) and every evaluation of a derived value is one atomic action.     *)
(*                                                                         *)
(* Text is a sequence of character codes, a date is a day number, a        *)
(* table is a set of rows (records), None is 0.  Columns no property       *)
(* reads (Book.summary, Author.date_of_birth, Author.date_of_death) are    *)
(* left out of the rows.                                                   *)
(***************************************************************************)
EXTENDS Integers, Sequences, FiniteSets, TLC

VARIABLES genres, languages, authors, users, books, instances, last

vars == <<genres, languages, authors, users, books, instances, last>>

\* The persisted state: the five tables of models.py and auth's User table.
store == <<genres, languages, authors, users, books, instances>>

-----------------------------------------------------------------------------
(* Bounds *)

\* Days are numbered 1..MaxDate.
MaxDate == 2
\* Genre rows a Book can be related to, in the display_genre specification.
MaxGenres == 4

Dates == 1..MaxDate

-----------------------------------------------------------------------------
(* Values *)

\* Python's None and SQL NULL (null=True); primary keys and days are >= 1.
None == 0

\* A ', ' separator: comma, space.
Comma == 44
Space == 32

\* max_length of the CharFields.
NAME_MAX_LENGTH == 200
ISBN_MAX_LENGTH == 13
AUTHOR_NAME_MAX_LENGTH == 100

\* A form field the POST data does not carry at all.
Omitted == "<omitted>"

\* BookInstance.LOAN_STATUS: (stored code, label) pairs.
LOAN_STATUS ==
  << <<"m", "Maintenance">>, <<"o", "On loan">>,
     <<"a", "Available">>, <<"r", "Reserved">> >>

\* default='m' of BookInstance.status.
StatusDefault == "m"

StatusCodes == {LOAN_STATUS[i][1] : i \in DOMAIN LOAN_STATUS}

-----------------------------------------------------------------------------
(* Tables *)

Ids(table) == {r.id : r \in table}

Row(table, id) == CHOOSE r \in table : r.id = id

\* The outcome of the last request: the operation, the primary key it was
\* about, one further input (a submitted key, the evaluation date, the order
\* the genre relation returned) and the response or the value returned.
Outcome(op, id, arg, result) ==
  [op |-> op, id |-> id, arg |-> arg, result |-> result]

ReadOps ==
  {"is_overdue", "display_genre", "str_genre", "str_language", "str_book",
   "str_instance", "str_author", "list_books", "list_authors",
   "list_instances"}

-----------------------------------------------------------------------------
(* Form validation *)

\* A CharField of a ModelForm: required unless blank=True, at most
\* max_length characters.
CharFieldValid(value, max_length, blank) ==
  /\ (blank \/ value # << >>)
  /\ Len(value) <= max_length

\* A ForeignKey's ModelChoiceField: the submitted key must be a stored row;
\* an empty choice is valid only with blank=True.
ForeignKeyUnchecked(value, table, blank) ==
  value = None => blank

ForeignKeyValid(value, table, blank) ==
  IF value = None THEN blank ELSE value \in Ids(table)

-----------------------------------------------------------------------------
(* Genre, Language, User *)

CreateGenre(id, name) ==
  /\ id \notin Ids(genres)
  /\ IF CharFieldValid(name, NAME_MAX_LENGTH, FALSE)
       THEN /\ genres' = genres \cup {[id |-> id, name |-> name]}
            /\ last' = Outcome("create_genre", id, None, "ok")
       ELSE /\ genres' = genres
            /\ last' = Outcome("create_genre", id, None, "ValidationError")
  /\ UNCHANGED <<languages, authors, users, books, instances>>

\* The rows of the Book.genre relation go with the Genre (the through table
\* cascades); the Books stay.
DeleteGenre(id) ==
  /\ id \in Ids(genres)
  /\ genres' = {g \in genres : g.id # id}
  /\ books' = {[b EXCEPT !.genre = b.genre \ {id}] : b \in books}
  /\ last' = Outcome("delete_genre", id, None, "ok")
  /\ UNCHANGED <<languages, authors, users, instances>>

CreateLanguage(id, name) ==
  /\ id \notin Ids(languages)
  /\ IF CharFieldValid(name, NAME_MAX_LENGTH, FALSE)
       THEN /\ languages' = languages \cup {[id |-> id, name |-> name]}
            /\ last' = Outcome("create_language", id, None, "ok")
       ELSE /\ languages' = languages
            /\ last' = Outcome("create_language", id, None, "ValidationError")
  /\ UNCHANGED <<genres, authors, users, books, instances>>

\* on_delete=SET_NULL of Book.language.
SetNullLanguage(b, id) ==
  IF b.language = id THEN [b EXCEPT !.language = None] ELSE b

DeleteLanguage(id) ==
  /\ id \in Ids(languages)
  /\ languages' = {l \in languages : l.id # id}
  /\ books' = {SetNullLanguage(b, id) : b \in books}
  /\ last' = Outcome("delete_language", id, None, "ok")
  /\ UNCHANGED <<genres, authors, users, instances>>

CreateUser(id) ==
  /\ id \notin Ids(users)
  /\ users' = users \cup {[id |-> id]}
  /\ last' = Outcome("create_user", id, None, "ok")
  /\ UNCHANGED <<genres, languages, authors, books, instances>>

\* on_delete=SET_NULL of BookInstance.borrower.
SetNullBorrower(i, id) ==
  IF i.borrower = id THEN [i EXCEPT !.borrower = None] ELSE i

DeleteUser(id) ==
  /\ id \in Ids(users)
  /\ users' = {u \in users : u.id # id}
  /\ instances' = {SetNullBorrower(i, id) : i \in instances}
  /\ last' = Outcome("delete_user", id, None, "ok")
  /\ UNCHANGED <<genres, languages, authors, books>>

-----------------------------------------------------------------------------
(* Author *)

AuthorValid(first_name, last_name) ==
  /\ CharFieldValid(first_name, AUTHOR_NAME_MAX_LENGTH, FALSE)
  /\ CharFieldValid(last_name, AUTHOR_NAME_MAX_LENGTH, FALSE)

CreateAuthor(id, first_name, last_name) ==
  /\ id \notin Ids(authors)
  /\ IF AuthorValid(first_name, last_name)
       THEN /\ authors' = authors \cup
                 {[id |-> id, first_name |-> first_name,
                   last_name |-> last_name]}
            /\ last' = Outcome("create_author", id, None, "ok")
       ELSE /\ authors' = authors
            /\ last' = Outcome("create_author", id, None, "ValidationError")
  /\ UNCHANGED <<genres, languages, users, books, instances>>

EditAuthor(id, first_name, last_name) ==
  /\ id \in Ids(authors)
  /\ IF AuthorValid(first_name, last_name)
       THEN /\ authors' = {a \in authors : a.id # id} \cup
                 {[id |-> id, first_name |-> first_name,
                   last_name |-> last_name]}
            /\ last' = Outcome("edit_author", id, None, "ok")
       ELSE /\ authors' = authors
            /\ last' = Outcome("edit_author", id, None, "ValidationError")
  /\ UNCHANGED <<genres, languages, users, books, instances>>

\* on_delete=SET_NULL of Book.author.
SetNullAuthorOfAll(b, id) == [b EXCEPT !.author = None]

SetNullAuthor(b, id) ==
  IF b.author = id THEN [b EXCEPT !.author = None] ELSE b

DeleteAuthor(id) ==
  /\ id \in Ids(authors)
  /\ authors' = {a \in authors : a.id # id}
  /\ books' = {SetNullAuthor(b, id) : b \in books}
  /\ last' = Outcome("delete_author", id, None, "ok")
  /\ UNCHANGED <<genres, languages, users, instances>>

-----------------------------------------------------------------------------
(* Book *)

\* unique=True of Book.isbn: the form's validate_unique looks for a stored
\* Book with the isbn, leaving out the row being edited (None when adding).
IsbnUniqueOnAdd(isbn, self) ==
  self # None \/ \A b \in books : b.isbn # isbn

IsbnUnique(isbn, self) ==
  \A b \in books : b.isbn = isbn => b.id = self

\* The ModelForm BookAdmin builds: every field is required (none has
\* blank=True), the choices must be stored rows.
BookValid(self, title, author, isbn, genre, language) ==
  /\ CharFieldValid(title, NAME_MAX_LENGTH, FALSE)
  /\ ForeignKeyValid(author, authors, FALSE)
  /\ CharFieldValid(isbn, ISBN_MAX_LENGTH, FALSE)
  /\ IsbnUnique(isbn, self)
  /\ genre # {} /\ genre \subseteq Ids(genres)
  /\ ForeignKeyValid(language, languages, FALSE)

BookRow(id, title, author, isbn, genre, language) ==
  [id |-> id, title |-> title, author |-> author, isbn |-> isbn,
   genre |-> genre, language |-> language]

CreateBook(id, title, author, isbn, genre, language) ==
  /\ id \notin Ids(books)
  /\ IF BookValid(None, title, author, isbn, genre, language)
       THEN /\ books' = books \cup
                 {BookRow(id, title, author, isbn, genre, language)}
            /\ last' = Outcome("create_book", id, isbn, "ok")
       ELSE /\ books' = books
            /\ last' = Outcome("create_book", id, isbn, "ValidationError")
  /\ UNCHANGED <<genres, languages, authors, users, instances>>

EditBook(id, title, author, isbn, genre, language) ==
  /\ id \in Ids(books)
  /\ IF BookValid(id, title, author, isbn, genre, language)
       THEN /\ books' = {b \in books : b.id # id} \cup
                 {BookRow(id, title, author, isbn, genre, language)}
            /\ last' = Outcome("edit_book", id, isbn, "ok")
       ELSE /\ books' = books
            /\ last' = Outcome("edit_book", id, isbn, "ValidationError")
  /\ UNCHANGED <<genres, languages, authors, users, instances>>

\* on_delete=RESTRICT of BookInstance.book: the rows that forbid deleting
\* the Book.
RestrictingNone(id) == {}

Restricting(id) == {i \in instances : i.book = id}

DeleteBook(id) ==
  /\ id \in Ids(books)
  /\ IF Restricting(id) = {}
       THEN /\ books' = {b \in books : b.id # id}
            /\ last' = Outcome("delete_book", id, None, "ok")
       ELSE /\ books' = books
            /\ last' = Outcome("delete_book", id, None, "RestrictedError")
  /\ UNCHANGED <<genres, languages, authors, users, instances>>

-----------------------------------------------------------------------------
(* BookInstance *)

\* choices=LOAN_STATUS, blank=True: a code of LOAN_STATUS, the empty choice,
\* or no value in the POST data at all.
StatusUnchecked(status) == TRUE

StatusValid(status) ==
  status \in StatusCodes \cup {"", Omitted}

\* construct_instance keeps the instance's value (the default on a new
\* instance) only for a field the POST data omits; a submitted empty choice
\* is stored as it is.
StatusStored(status, current) ==
  IF status = Omitted THEN current ELSE status

\* The ModelForm of BookInstanceAdmin.fieldsets: id, book and imprint are
\* required; due_back, borrower and status have blank=True.  The primary key
\* is checked for uniqueness only when adding.
InstanceValid(adding, id, book, imprint, borrower, status) ==
  /\ id # << >>
  /\ (adding => id \notin Ids(instances))
  /\ ForeignKeyValid(book, books, FALSE)
  /\ CharFieldValid(imprint, NAME_MAX_LENGTH, FALSE)
  /\ ForeignKeyValid(borrower, users, TRUE)
  /\ StatusValid(status)

InstanceRow(id, book, imprint, due_back, borrower, status) ==
  [id |-> id, book |-> book, imprint |-> imprint, due_back |-> due_back,
   borrower |-> borrower, status |-> status]

\* Model.save on a form's instance: UPDATE ... WHERE id = row.id sets the
\* other columns, and when no row has that id, INSERT.  The id column is
\* never written by an UPDATE.  old is the key the form was opened on.
SaveInstanceRekeyed(table, old, row) ==
  {i \in table : i.id # old} \cup {row}

SaveInstance(table, old, row) ==
  {i \in table : i.id # row.id} \cup {row}

\* What a BookInstance form submitted for id and status.
Submitted(id, status) == [id |-> id, status |-> status]

CreateInstance(id, book, imprint, due_back, borrower, status) ==
  /\ IF InstanceValid(TRUE, id, book, imprint, borrower, status)
       THEN /\ instances' = instances \cup
                 {InstanceRow(id, book, imprint, due_back, borrower,
                              StatusStored(status, StatusDefault))}
            /\ last' = Outcome("create_instance", id,
                                Submitted(id, status), "ok")
       ELSE /\ instances' = instances
            /\ last' = Outcome("create_instance", id,
                                Submitted(id, status), "ValidationError")
  /\ UNCHANGED <<genres, languages, authors, users, books>>

\* The change form of the row with key old; id is the key the form submits
\* (fieldsets lists id, and the field is editable).
EditInstance(old, id, book, imprint, due_back, borrower, status) ==
  /\ old \in Ids(instances)
  /\ IF InstanceValid(FALSE, id, book, imprint, borrower, status)
       THEN /\ instances' =
                 SaveInstance(instances, old,
                   InstanceRow(id, book, imprint, due_back, borrower,
                     StatusStored(status, Row(instances, old).status)))
            /\ last' = Outcome("edit_instance", old,
                                Submitted(id, status), "ok")
       ELSE /\ instances' = instances
            /\ last' = Outcome("edit_instance", old,
                                Submitted(id, status), "ValidationError")
  /\ UNCHANGED <<genres, languages, authors, users, books>>

DeleteInstance(id) ==
  /\ id \in Ids(instances)
  /\ instances' = {i \in instances : i.id # id}
  /\ last' = Outcome("delete_instance", id, None, "ok")
  /\ UNCHANGED <<genres, languages, authors, users, books>>

-----------------------------------------------------------------------------
(* Derived values *)

\* The sequences that hold every element of the set S once: the orders in
\* which a query without a total ORDER BY may return its rows.
Orders(S) ==
  {s \in [1..Cardinality(S) -> S] :
     \A i, j \in 1..Cardinality(S) : i # j => s[i] # s[j]}

\* Truth value of a DateField's value: None is false, a date is true.
Truthy(value) == value # None

\* BookInstance.is_overdue: `x and y` is x when x is false, else y.  The
\* value is given by its Python repr: "None", "True" or "False".
is_overdue_from_due_date(due_back, today) ==
  IF ~Truthy(due_back) THEN "None"
  ELSE IF today >= due_back THEN "True" ELSE "False"

is_overdue(due_back, today) ==
  IF ~Truthy(due_back) THEN "None"
  ELSE IF today > due_back THEN "True" ELSE "False"

\* str.join
RECURSIVE Join(_, _)
Join(sep, items) ==
  IF items = << >> THEN << >>
  ELSE IF Len(items) = 1 THEN items[1]
  ELSE items[1] \o sep \o Join(sep, Tail(items))

\* The slice [:3] of a queryset: LIMIT 3.
GenreLimit == 3

LimitInclusive(rows, n) ==
  SubSeq(rows, 1, IF Len(rows) < n + 1 THEN Len(rows) ELSE n + 1)

Limit(rows, n) == SubSeq(rows, 1, IF Len(rows) < n THEN Len(rows) ELSE n)

GenreSeparator == <<Comma, Space>>

\* Book.display_genre, over the Genre rows self.genre.all() returned.
display_genre(all) ==
  LET shown == Limit(all, GenreLimit)
  IN  Join(GenreSeparator, [i \in 1..Len(shown) |-> shown[i].name])

IsOverdueMarking(id, today) ==
  /\ id \in Ids(instances)
  /\ last' = Outcome("is_overdue", id, today,
                     is_overdue(Row(instances, id).due_back, today))
  /\ instances' =
       {IF i.id = id /\ is_overdue(i.due_back, today) = "True"
          THEN [i EXCEPT !.status = "m"] ELSE i : i \in instances}
  /\ UNCHANGED <<genres, languages, authors, users, books>>

IsOverdue(id, today) ==
  /\ id \in Ids(instances)
  /\ last' = Outcome("is_overdue", id, today,
                     is_overdue(Row(instances, id).due_back, today))
  /\ UNCHANGED store

\* Genre declares no ordering: the relation returns the Book's genres in
\* an order the datastore chooses.
DisplayGenre(id) ==
  /\ id \in Ids(books)
  /\ \E order \in Orders(Row(books, id).genre) :
       last' = Outcome("display_genre", id, order,
                 display_genre([i \in 1..Len(order) |->
                                  Row(genres, order[i])]))
  /\ UNCHANGED store

\* Genre.__str__ and Language.__str__
StrGenre(id) ==
  /\ id \in Ids(genres)
  /\ last' = Outcome("str_genre", id, None, Row(genres, id).name)
  /\ UNCHANGED store

StrLanguage(id) ==
  /\ id \in Ids(languages)
  /\ last' = Outcome("str_language", id, None, Row(languages, id).name)
  /\ UNCHANGED store

\* Book.__str__
StrBook(id) ==
  /\ id \in Ids(books)
  /\ last' = Outcome("str_book", id, None, Row(books, id).title)
  /\ UNCHANGED store

\* Author.__str__: f'{self.last_name}, {self.first_name}'
StrAuthor(id) ==
  /\ id \in Ids(authors)
  /\ last' = Outcome("str_author", id, None,
                     Row(authors, id).last_name \o <<Comma, Space>>
                       \o Row(authors, id).first_name)
  /\ UNCHANGED store

LeftParen == 40
RightParen == 41

\* BookInstance.__str__: f'{self.id} ({self.book.title})'
StrInstance(id) ==
  /\ id \in Ids(instances)
  /\ last' = Outcome("str_instance", id, None,
                     id \o <<Space, LeftParen>>
                        \o Row(books, Row(instances, id).book).title
                        \o <<RightParen>>)
  /\ UNCHANGED store

-----------------------------------------------------------------------------
(* Listing: Meta.ordering *)

\* Text compared character by character, a prefix first.
RECURSIVE LexLess(_, _)
LexLess(s, t) ==
  IF t = << >> THEN FALSE
  ELSE IF s = << >> THEN TRUE
  ELSE IF s[1] # t[1] THEN s[1] < t[1]
  ELSE LexLess(Tail(s), Tail(t))

\* A column of an ORDER BY: NULL, or a value as a sequence of numbers.
Column(value) == [null |-> FALSE, v |-> value]
NullColumn == [null |-> TRUE, v |-> << >>]

\* NULLs sort before or after every value, as the datastore has it.
ColumnLess(a, b, nulls_first) ==
  IF a.null /\ b.null THEN FALSE
  ELSE IF a.null THEN nulls_first
  ELSE IF b.null THEN ~nulls_first
  ELSE LexLess(a.v, b.v)

\* ORDER BY c1, c2, ...: the first column that differs decides.
RECURSIVE KeyLess(_, _, _)
KeyLess(k1, k2, nulls_first) ==
  IF k1 = << >> THEN FALSE
  ELSE IF k1[1] # k2[1] THEN ColumnLess(k1[1], k2[1], nulls_first)
  ELSE KeyLess(Tail(k1), Tail(k2), nulls_first)

AuthorOrdering == <<"last_name", "first_name">>
BookOrderingAuthorFirst == <<"author", "title">>

BookOrdering == <<"title", "author">>
InstanceOrdering == <<"due_back">>

AuthorKey(a) ==
  [i \in DOMAIN AuthorOrdering |-> Column(a[AuthorOrdering[i]])]

\* Ordering by a ForeignKey orders by the related model's own ordering, over
\* a LEFT OUTER JOIN: a Book without author has NULL in those columns.
BookColumns(b, field) ==
  IF field = "author"
    THEN IF b.author = None
           THEN [i \in DOMAIN AuthorOrdering |-> NullColumn]
           ELSE AuthorKey(Row(authors, b.author))
    ELSE <<Column(b[field])>>

RECURSIVE BookKeyOf(_, _)
BookKeyOf(b, ordering) ==
  IF ordering = << >> THEN << >>
  ELSE BookColumns(b, ordering[1]) \o BookKeyOf(b, Tail(ordering))

BookKey(b) == BookKeyOf(b, BookOrdering)

InstanceKey(i) ==
  [k \in DOMAIN InstanceOrdering |->
     IF i[InstanceOrdering[k]] = None THEN NullColumn
     ELSE Column(<<i[InstanceOrdering[k]]>>)]

\* What ORDER BY guarantees of the rows returned, by their keys; rows with
\* equal keys come in any order.
OrderedBy(keys, nulls_first) ==
  \A i \in 1..(Len(keys) - 1) :
    ~KeyLess(keys[i + 1], keys[i], nulls_first)

ListBooks(nulls_first) ==
  /\ \E rows \in Orders(books) :
       /\ OrderedBy([i \in 1..Len(rows) |-> BookKey(rows[i])],
                    nulls_first)
       /\ last' = Outcome("list_books", None, nulls_first, rows)
  /\ UNCHANGED store

ListAuthors(nulls_first) ==
  /\ \E rows \in Orders(authors) :
       /\ OrderedBy([i \in 1..Len(rows) |-> AuthorKey(rows[i])],
                    nulls_first)
       /\ last' = Outcome("list_authors", None, nulls_first, rows)
  /\ UNCHANGED store

ListInstances(nulls_first) ==
  /\ \E rows \in Orders(instances) :
       /\ OrderedBy([i \in 1..Len(rows) |-> InstanceKey(rows[i])],
                    nulls_first)
       /\ last' = Outcome("list_instances", None, nulls_first, rows)
  /\ UNCHANGED store

-----------------------------------------------------------------------------
(* Requests *)

\* The requests the administrative interface serves, with their inputs drawn
\* from the sets of in: one disjunct per add form, change form and delete
\* view, and one per derived value.

\* AuthorAdmin, BookAdmin and the registered Genre and Language.
CatalogWrites(in) ==
  \/ \E id \in in.genre_ids, name \in in.genre_names : CreateGenre(id, name)
  \/ \E id \in in.genre_ids : DeleteGenre(id)
  \/ \E id \in in.language_ids, name \in in.language_names :
       CreateLanguage(id, name)
  \/ \E id \in in.language_ids : DeleteLanguage(id)
  \/ \E id \in in.author_ids, f \in in.first_names, l \in in.last_names :
       CreateAuthor(id, f, l)
  \/ \E id \in in.author_ids, f \in in.first_names, l \in in.last_names :
       EditAuthor(id, f, l)
  \/ \E id \in in.author_ids : DeleteAuthor(id)
  \/ \E id \in in.book_ids, t \in in.titles, a \in in.book_authors,
        n \in in.isbns, g \in in.book_genres, l \in in.book_languages :
       CreateBook(id, t, a, n, g, l)
  \/ \E id \in in.book_ids, t \in in.titles, a \in in.book_authors,
        n \in in.isbns, g \in in.book_genres, l \in in.book_languages :
       EditBook(id, t, a, n, g, l)
  \/ \E id \in in.book_ids : DeleteBook(id)

CatalogReads(in) ==
  \/ \E id \in in.book_ids : DisplayGenre(id)
  \/ \E id \in in.genre_ids : StrGenre(id)
  \/ \E id \in in.language_ids : StrLanguage(id)
  \/ \E id \in in.book_ids : StrBook(id)
  \/ \E id \in in.author_ids : StrAuthor(id)
  \/ \E nulls_first \in in.nulls_first : ListBooks(nulls_first)
  \/ \E nulls_first \in in.nulls_first : ListAuthors(nulls_first)

\* auth's User.
UserWrites(in) ==
  \/ \E id \in in.user_ids : CreateUser(id)
  \/ \E id \in in.user_ids : DeleteUser(id)

\* BookInstanceAdmin.
LoanWrites(in) ==
  \/ \E id \in in.uuids, b \in in.instance_books, i \in in.imprints,
        d \in in.due_backs, u \in in.borrowers, s \in in.statuses :
       CreateInstance(id, b, i, d, u, s)
  \/ \E old \in in.uuids, id \in in.uuids, b \in in.instance_books,
        i \in in.imprints, d \in in.due_backs, u \in in.borrowers,
        s \in in.statuses :
       EditInstance(old, id, b, i, d, u, s)
  \/ \E id \in in.uuids : DeleteInstance(id)

LoanReads(in) ==
  \/ \E id \in in.uuids, today \in in.todays : IsOverdue(id, today)
  \/ \E id \in in.uuids : StrInstance(id)
  \/ \E nulls_first \in in.nulls_first : ListInstances(nulls_first)

\* The tables after the migrations: empty.
Init ==
  /\ genres = {}
  /\ languages = {}
  /\ authors = {}
  /\ users = {}
  /\ books = {}
  /\ instances = {}
  /\ last = Outcome("migrate", None, None, "ok")

-----------------------------------------------------------------------------
(* The catalog: Books, what they refer to and their copies *)

\* "A", "B"
TextA == <<65>>
TextB == <<66>>
\* Stand-ins for two UUIDs in their text form.
Uuid1 == <<49>>
Uuid2 == <<50>>

CatalogInputs ==
  [genre_ids |-> {1}, genre_names |-> {TextA},
   language_ids |-> {1}, language_names |-> {TextA},
   user_ids |-> {1},
   author_ids |-> {1, 2}, first_names |-> {TextA}, last_names |-> {TextA},
   book_ids |-> {1, 2}, titles |-> {TextA}, book_authors |-> {1, 2},
   isbns |-> {TextA, TextB}, book_genres |-> {{1}},
   book_languages |-> {1},
   uuids |-> {Uuid1}, instance_books |-> {1, 2}, imprints |-> {TextA},
   due_backs |-> {None}, borrowers |-> {None, 1}, statuses |-> {Omitted},
   todays |-> {1}, nulls_first |-> {TRUE}]

Next ==
  \/ CatalogWrites(CatalogInputs)
  \/ CatalogReads(CatalogInputs)
  \/ UserWrites(CatalogInputs)
  \/ LoanWrites(CatalogInputs)
  \/ LoanReads(CatalogInputs)

Spec == Init /\ [][Next]_vars

-----------------------------------------------------------------------------
(* The copies: BookInstances of a catalog that holds one Book *)

LoanInputs ==
  [genre_ids |-> {1}, language_ids |-> {1}, author_ids |-> {1},
   book_ids |-> {1},
   uuids |-> {Uuid1, Uuid2}, instance_books |-> {1},
   imprints |-> {TextA}, due_backs |-> {None} \cup Dates,
   borrowers |-> {None},
   statuses |-> StatusCodes \cup {"", Omitted, "x"},
   todays |-> Dates, nulls_first |-> BOOLEAN]

InitLoans ==
  /\ genres = {[id |-> 1, name |-> TextA]}
  /\ languages = {[id |-> 1, name |-> TextA]}
  /\ authors = {[id |-> 1, first_name |-> TextA, last_name |-> TextB]}
  /\ users = {}
  /\ books = {BookRow(1, TextA, 1, TextA, {1}, 1)}
  /\ instances = {}
  /\ last = Outcome("migrate", None, None, "ok")

NextLoans ==
  \/ LoanWrites(LoanInputs)
  \/ LoanReads(LoanInputs)
  \/ CatalogReads(LoanInputs)
  \/ \E id \in LoanInputs.book_ids : DeleteBook(id)

SpecLoans == InitLoans /\ [][NextLoans]_vars

-----------------------------------------------------------------------------
(* display_genre: one Book and the Genres it is related to *)

GenreIds == 1..MaxGenres

\* "A", "BC"
GenreNames == {TextA, <<66, 67>>}

\* Every Genre table over GenreIds and GenreNames, and one Book related to
\* any of them (its author and language deleted since).
InitGenre ==
  /\ \E name \in [GenreIds -> GenreNames] :
       genres = {[id |-> id, name |-> name[id]] : id \in GenreIds}
  /\ \E genre \in SUBSET GenreIds :
       books = {BookRow(1, TextA, None, TextA, genre, None)}
  /\ languages = {}
  /\ authors = {}
  /\ users = {}
  /\ instances = {}
  /\ last = Outcome("migrate", None, None, "ok")

NextGenre == \E id \in {1} : DisplayGenre(id)

SpecGenre == InitGenre /\ [][NextGenre]_vars

-----------------------------------------------------------------------------
(* Listing: the tables a listing can meet *)

\* "A", "AB", "B"
ListTexts == {TextA, <<65, 66>>, TextB}

ListIds == {1, 2, 3}

ListUuids == {Uuid1, Uuid2, <<51>>}

ListAuthorsFixed ==
  {[id |-> 1, first_name |-> TextB, last_name |-> TextA],
   [id |-> 2, first_name |-> TextA, last_name |-> TextB]}

\* Either any two Authors and up to three Books of theirs (or of none), or
\* one Book and up to three copies of it with any due dates.
InitList ==
  /\ genres = {}
  /\ languages = {}
  /\ users = {}
  /\ last = Outcome("migrate", None, None, "ok")
  /\ \/ /\ \E first \in [{1, 2} -> {TextA, TextB}],
              last_ \in [{1, 2} -> {TextA, TextB}] :
              authors = {[id |-> id, first_name |-> first[id],
                          last_name |-> last_[id]] : id \in {1, 2}}
        /\ \E stored \in SUBSET ListIds,
              title \in [ListIds -> ListTexts],
              author \in [ListIds -> {None, 1, 2}] :
              books = {BookRow(id, title[id], author[id], <<48 + id>>, {},
                               None) : id \in stored}
        /\ instances = {}
     \/ /\ authors = ListAuthorsFixed
        /\ books = {BookRow(1, TextA, 1, TextA, {}, None)}
        /\ \E stored \in SUBSET ListUuids,
              due_back \in [ListUuids -> {None} \cup Dates] :
              instances = {InstanceRow(id, 1, TextA, due_back[id], None,
                                       StatusDefault) : id \in stored}

NextList ==
  \/ \E nulls_first \in BOOLEAN : ListBooks(nulls_first)
  \/ \E nulls_first \in BOOLEAN : ListAuthors(nulls_first)
  \/ \E nulls_first \in BOOLEAN : ListInstances(nulls_first)

SpecList == InitList /\ [][NextList]_vars

-----------------------------------------------------------------------------
(* Properties *)

IsbnDistinct(table) ==
  \A b1, b2 \in table : b1 # b2 => b1.isbn # b2.isbn

\* C1: the isbn values of the stored Books are pairwise distinct before and
\* after every step, and a create or an update that submits an isbn held by
\* a different stored Book is answered with a validation error and leaves
\* the Book table as it was.
C1_IsbnUnique ==
  [][/\ IsbnDistinct(books) /\ IsbnDistinct(books')
     /\ (/\ last'.op \in {"create_book", "edit_book"}
         /\ \E b \in books : b.isbn = last'.arg /\ b.id # last'.id)
        => (last'.result = "ValidationError" /\ books' = books)]_vars

\* C1 witness: two Books are stored and an edit of one that submitted the
\* other's isbn was rejected.
C1_Witness ==
  /\ last.op = "edit_book"
  /\ last.result = "ValidationError"
  /\ Cardinality(books) = 2
  /\ \E b \in books : b.isbn = last.arg /\ b.id # last.id

\* C2: deleting a Book that a BookInstance refers to answers with an error
\* and leaves the Book and BookInstance tables as they were; deleting a Book
\* no BookInstance refers to succeeds and removes exactly that Book.
C2_DeleteBookRestricted ==
  [][last'.op = "delete_book" =>
       IF \E i \in instances : i.book = last'.id
         THEN /\ last'.result # "ok"
              /\ books' = books
              /\ instances' = instances
         ELSE /\ last'.result = "ok"
              /\ last'.id \notin Ids(books')
              /\ books' = {b \in books : b.id # last'.id}]_vars

\* C2 witness: the deletion of a Book with a copy was refused, and the Book
\* and the copy are stored.
C2_Witness ==
  /\ last.op = "delete_book"
  /\ last.result = "RestrictedError"
  /\ last.id \in Ids(books)
  /\ \E i \in instances : i.book = last.id

\* C3: the book of every stored BookInstance is the key of a stored Book.
C3_BookReferenceResolves ==
  \A i \in instances : \E b \in books : b.id = i.book

\* C3 witness: a Book was deleted while a copy of another Book is stored.
C3_Witness ==
  /\ last.op = "delete_book"
  /\ last.result = "ok"
  /\ instances # {}

\* C4: deleting an Author, a Language or a User succeeds whatever refers to
\* it: the row is gone, every Book (BookInstance) that referred to it is
\* stored with that reference None and its other fields as before, every
\* other row is as before, and nothing refers to the deleted row.
C4_DeleteSetsNull ==
  [][/\ last'.op = "delete_author" =>
          /\ last'.result = "ok"
          /\ last'.id \notin Ids(authors')
          /\ books' = {IF b.author = last'.id
                         THEN [b EXCEPT !.author = None] ELSE b : b \in books}
          /\ Cardinality(books') = Cardinality(books)
          /\ instances' = instances
          /\ \A b \in books' : b.author # last'.id
     /\ last'.op = "delete_language" =>
          /\ last'.result = "ok"
          /\ last'.id \notin Ids(languages')
          /\ books' = {IF b.language = last'.id
                         THEN [b EXCEPT !.language = None] ELSE b : b \in books}
          /\ Cardinality(books') = Cardinality(books)
          /\ instances' = instances
          /\ \A b \in books' : b.language # last'.id
     /\ last'.op = "delete_user" =>
          /\ last'.result = "ok"
          /\ last'.id \notin Ids(users')
          /\ instances' = {IF i.borrower = last'.id
                             THEN [i EXCEPT !.borrower = None] ELSE i :
                           i \in instances}
          /\ Cardinality(instances') = Cardinality(instances)
          /\ books' = books
          /\ \A i \in instances' : i.borrower # last'.id]_vars

\* C4 witness: an Author was deleted; one Book is left without author and
\* another Book still has its own.
C4_Witness ==
  /\ last.op = "delete_author"
  /\ \E b1, b2 \in books : b1.author = None /\ b2.author # None

\* C5: is_overdue is True exactly when due_back is set and earlier than the
\* evaluation date, and is False or None when due_back is None and when
\* due_back is the evaluation date or later.
C5_IsOverdue ==
  last.op = "is_overdue" =>
    LET due_back == Row(instances, last.id).due_back
        today == last.arg
    IN  /\ last.result = "True" <=> (due_back # None /\ due_back < today)
        /\ due_back = None => last.result \in {"False", "None"}
        /\ (due_back # None /\ due_back >= today)
             => last.result \in {"False", "None"}

\* C5 witness: is_overdue was True of a copy due before the evaluation date.
C5_Witness ==
  /\ last.op = "is_overdue"
  /\ last.result = "True"
  /\ Row(instances, last.id).due_back < last.arg

\* C6: display_genre is the names of the first min(n, 3) genres the relation
\* returned, in that order, with ", " between them: empty for n = 0, the one
\* name for n = 1, never the fourth name or a later one.
C6_DisplayGenre ==
  last.op = "display_genre" =>
    LET name == [i \in 1..Len(last.arg) |-> Row(genres, last.arg[i]).name]
        n == Len(name)
    IN  /\ {last.arg[i] : i \in 1..n} = Row(books, last.id).genre
        /\ n = Cardinality(Row(books, last.id).genre)
        /\ last.result =
             CASE n = 0 -> << >>
               [] n = 1 -> name[1]
               [] n = 2 -> name[1] \o <<44, 32>> \o name[2]
               [] OTHER -> name[1] \o <<44, 32>> \o name[2]
                             \o <<44, 32>> \o name[3]

\* C6 witness: display_genre of a Book with four genres, whose fourth name
\* differs from its third.
C6_Witness ==
  /\ last.op = "display_genre"
  /\ Len(last.arg) >= 4
  /\ Row(genres, last.arg[4]).name # Row(genres, last.arg[3]).name

IdsDistinct(table) ==
  \A r1, r2 \in table : r1.id = r2.id => r1 = r2

\* C7: the ids of the stored BookInstances are pairwise distinct, and no
\* step but the deletion of a BookInstance takes an id out of the table: no
\* read and no edit, whatever id the form submits, gives a stored
\* BookInstance another id.
C7_InstanceIdStable ==
  [][/\ IdsDistinct(instances) /\ IdsDistinct(instances')
     /\ last'.op # "delete_instance"
          => Ids(instances) \subseteq Ids(instances')
     /\ last'.op = "delete_instance"
          => Ids(instances') = Ids(instances) \ {last'.id}]_vars

\* C7 witness: a change form submitted an id other than the one it was
\* opened on and was saved; the row it was opened on is stored.
C7_Witness ==
  /\ last.op = "edit_instance"
  /\ last.result = "ok"
  /\ last.arg.id # last.id
  /\ last.id \in Ids(instances)

\* The statuses LOAN_STATUS names.
FourStatuses ==
  {LOAN_STATUS[i][1] : i \in
     {j \in DOMAIN LOAN_STATUS :
        LOAN_STATUS[j][2] \in
          {"Maintenance", "On loan", "Available", "Reserved"}}}

\* C9 as claimed: the status of every stored BookInstance is one of
\* Maintenance, On loan, Available, Reserved, and a BookInstance created
\* without a status has status Maintenance.
C9_StatusOneOfFour ==
  /\ \A i \in instances : i.status \in FourStatuses
  /\ (/\ last.op = "create_instance"
      /\ last.result = "ok"
      /\ last.arg.status \in {"", Omitted})
       => Row(instances, last.id).status = "m"

\* C9 as amended: the status of every stored BookInstance is one of
\* Maintenance, On loan, Available, Reserved or the empty string, and a
\* BookInstance created with no status value in the submitted data has
\* status Maintenance.
C9_StatusOneOfFourOrBlank ==
  /\ \A i \in instances : i.status \in FourStatuses \cup {""}
  /\ (/\ last.op = "create_instance"
      /\ last.result = "ok"
      /\ last.arg.status = Omitted)
       => Row(instances, last.id).status = "m"

\* C9 witness: a BookInstance was created with the status left out and is
\* stored as Maintenance, beside one stored with the empty status.
C9_Witness ==
  /\ last.op = "create_instance"
  /\ last.result = "ok"
  /\ last.arg.status = Omitted
  /\ Row(instances, last.id).status = "m"
  /\ \E i \in instances : i.status = ""

WriteOps ==
  {"create_genre", "delete_genre", "create_language", "delete_language",
   "create_user", "delete_user", "create_author", "edit_author",
   "delete_author", "create_book", "edit_book", "delete_book",
   "create_instance", "edit_instance", "delete_instance"}

\* C10: the tables change only in a create, edit or delete step; evaluating
\* is_overdue, display_genre, a string representation or a listing leaves
\* every table as it was (so the status of an overdue copy stays).
C10_ReadsChangeNothing ==
  [][/\ last'.op \in ReadOps => store' = store
     /\ store' # store => last'.op \in WriteOps]_vars

\* C10 witness: is_overdue was True of a copy whose status is On loan.
C10_Witness ==
  /\ last.op = "is_overdue"
  /\ last.result = "True"
  /\ Row(instances, last.id).status = "o"

\* s is not after t in the order of text.
TextLeq(s, t) == s = t \/ LexLess(s, t)

\* Rows a1 and a2 of Author in (last_name, first_name) order.
AuthorLeq(a1, a2) ==
  \/ LexLess(a1.last_name, a2.last_name)
  \/ /\ a1.last_name = a2.last_name
     /\ TextLeq(a1.first_name, a2.first_name)

\* The rows of a listing are the rows of the table, each once.
ListsAll(rows, table) ==
  /\ Len(rows) = Cardinality(table)
  /\ {rows[i] : i \in 1..Len(rows)} = table

\* C8: a listing holds every stored row once, sorted by the declared key:
\* Books by title and, for equal titles, by author (the Authors'
\* (last_name, first_name) order); Authors by last_name and then first_name;
\* BookInstances by due_back ascending.  Rows without author or due_back
\* come all first or all last, as the datastore sorts NULL.
C8_ListingSorted ==
  LET rows == last.result
      nulls_first == last.arg
  IN
  /\ last.op = "list_books" =>
       /\ ListsAll(rows, books)
       /\ \A i, j \in 1..Len(rows) : i < j =>
            /\ TextLeq(rows[i].title, rows[j].title)
            /\ rows[i].title = rows[j].title =>
                 IF rows[i].author = None \/ rows[j].author = None
                   THEN \/ rows[i].author = rows[j].author
                        \/ (rows[i].author = None) = nulls_first
                   ELSE AuthorLeq(Row(authors, rows[i].author),
                                  Row(authors, rows[j].author))
  /\ last.op = "list_authors" =>
       /\ ListsAll(rows, authors)
       /\ \A i, j \in 1..Len(rows) : i < j => AuthorLeq(rows[i], rows[j])
  /\ last.op = "list_instances" =>
       /\ ListsAll(rows, instances)
       /\ \A i, j \in 1..Len(rows) : i < j =>
            IF rows[i].due_back = None \/ rows[j].due_back = None
              THEN \/ rows[i].due_back = rows[j].due_back
                   \/ (rows[i].due_back = None) = nulls_first
              ELSE rows[i].due_back <= rows[j].due_back

\* C8 witness: a listing of three Books in which two share a title and have
\* different authors, and a third has another title.
C8_Witness ==
  /\ last.op = "list_books"
  /\ Len(last.result) = 3
  /\ last.result[1].title = last.result[2].title
  /\ last.result[1].author # None
  /\ last.result[2].author # None
  /\ last.result[1].author # last.result[2].author
  /\ last.result[3].title # last.result[2].title

====
